---- MODULE Spec2Model ----
(***************************************************************************)
(* Granny-square round compiler (crocheo-blog).                            *)
(*                                                                         *)
(* buildRounds compiles one Round per radius, each from the round before.  *)
(* The module models the three copies of the round compiler that the       *)
(* repository holds: the chart compiler whose anchors carry an AnchorType, *)
(* the chart compiler whose anchors are bare Vec2, and the stitch-view     *)
(* compiler (proportional pitch).                                          *)
(*                                                                         *)
(* Numbers.  Every coordinate the compilers produce is a rational          *)
(* combination of the inputs and of Math.sqrt(2) * r, so a number is       *)
(* modelled exactly as (p + q*sqrt(2)) / d with integer p, q and d > 0,    *)
(* in lowest terms.  IEEE rounding of the doubles is not modelled.         *)
(***************************************************************************)
EXTENDS Integers, Sequences, FiniteSets, TLC

\* ---------------------------------------------------------------- bounds
MaxRounds == 4
MaxRadius == 2
MaxStitch == 2
MaxCenter == 1

\* ------------------------------------------------------- exact arithmetic
AbsInt(n) == IF n < 0 THEN -n ELSE n

RECURSIVE GCD(_, _)
GCD(a, b) == IF b = 0 THEN a ELSE GCD(b, a % b)

Norm(p, q, d) ==
  LET g == GCD(GCD(AbsInt(p), AbsInt(q)), d)
  IN  [p |-> p \div g, q |-> q \div g, d |-> d \div g]

Num(n) == [p |-> n, q |-> 0, d |-> 1]
Frac(n, m) == Norm(n, 0, m)

Add(x, y) == Norm(x.p * y.d + y.p * x.d, x.q * y.d + y.q * x.d, x.d * y.d)
Neg(x) == [p |-> -x.p, q |-> -x.q, d |-> x.d]
Sub(x, y) == Add(x, Neg(y))
Mul(x, y) ==
  Norm(x.p * y.p + 2 * x.q * y.q, x.p * y.q + x.q * y.p, x.d * y.d)
\* division by a positive integer
DivInt(x, n) == Norm(x.p, x.q, x.d * n)

\* sign of p + q*sqrt(2)
Sign(x) ==
  CASE x.p = 0 /\ x.q = 0 -> 0
    [] x.p >= 0 /\ x.q >= 0 -> 1
    [] x.p <= 0 /\ x.q <= 0 -> -1
    [] x.p > 0 /\ x.q < 0 -> IF x.p * x.p > 2 * x.q * x.q THEN 1 ELSE -1
    [] OTHER -> IF 2 * x.q * x.q > x.p * x.p THEN 1 ELSE -1

Abs(x) == IF Sign(x) < 0 THEN Neg(x) ELSE x

\* Math.sqrt(2)
Sqrt2 == [p |-> 0, q |-> 1, d |-> 1]

\* Math.hypot(dx, dy): the sides of the bounding square are axis-aligned, so
\* one of the two arguments is always zero
hypot(dx, dy) ==
  CASE Sign(dy) = 0 -> Abs(dx)
    [] Sign(dx) = 0 -> Abs(dy)

\* ------------------------------------------------------------ primitives
Vec(x, y) == [x |-> x, y |-> y]

vecLerp(a, b, t) ==
  Vec(Add(a.x, Mul(Sub(b.x, a.x), t)), Add(a.y, Mul(Sub(b.y, a.y), t)))

squareFromCircumradius(center, r) ==
  LET halfSide == DivInt(Mul(Sqrt2, r), 2)
  IN  [k \in 0..3 |->
        CASE k = 0 -> Vec(Sub(center.x, halfSide), Sub(center.y, halfSide))
          [] k = 1 -> Vec(Add(center.x, halfSide), Sub(center.y, halfSide))
          [] k = 2 -> Vec(Add(center.x, halfSide), Add(center.y, halfSide))
          [] k = 3 -> Vec(Sub(center.x, halfSide), Add(center.y, halfSide))]

sideEndpoints(corners, side) ==
  CASE side = 0 -> <<corners[0], corners[1]>>
    [] side = 1 -> <<corners[1], corners[2]>>
    [] side = 2 -> <<corners[2], corners[3]>>
    [] side = 3 -> <<corners[3], corners[0]>>

buildRoundGeoMut(roundId, center, r) ==
  LET rr == IF Sign(r) < 0 THEN Num(0) ELSE r
  IN  [r |-> rr, corners |-> squareFromCircumradius(center, rr), center |-> center]
buildRoundGeo(roundId, center, r) ==
  [r |-> r, corners |-> squareFromCircumradius(center, r), center |-> center]

\* -------------------------------------------------------- round compiler
\* An optional value (Round | null, AnchorRef | undefined) is a sequence of
\* length 0 or 1.  An anchor is [pos, type]; in the copies of the compiler
\* whose anchors are bare Vec2 values the type is "none" (reading .type of
\* such an anchor gives undefined).
Half == Frac(1, 2)

numClustersMutPlus(roundId) == roundId + 1
numClustersMutMinus(roundId) == roundId - 1
numClusters(roundId) == roundId

numStitchUnitsPerSide(roundId) ==
  IF roundId = 1 THEN 4 ELSE (numClusters(roundId) * 3) + 2

isVerticalSide(sideIndex) == sideIndex = 1 \/ sideIndex = 3

cornerT1Mut(roundId) == DivInt(Num(1), numStitchUnitsPerSide(roundId))
cornerT1(roundId) == DivInt(Half, numStitchUnitsPerSide(roundId))
cornerT2(roundId) == Sub(Num(1), cornerT1(roundId))

\* (j * 3 + 2.5) / numStitchUnitsPerSide, 0.5 for round 1
clusterCenterTMut(roundId, j) ==
  DivInt(Add(Num(j * 3), Frac(5, 2)), numStitchUnitsPerSide(roundId))
clusterCenterT(roundId, j) ==
  IF roundId = 1 THEN Half
  ELSE DivInt(Add(Num(j * 3), Frac(5, 2)), numStitchUnitsPerSide(roundId))

\* centerPos.x = p0.x on a vertical side, centerPos.y = p0.y otherwise
pinToSideMut(pos, p0, sideIndex) == pos
pinToSide(pos, p0, sideIndex) ==
  IF isVerticalSide(sideIndex) THEN [pos EXCEPT !.x = p0.x]
  ELSE [pos EXCEPT !.y = p0.y]

cornerChainId(roundId, sideIndex, k) ==
  "r" \o ToString(roundId) \o "-s" \o ToString(sideIndex)
      \o "-corner" \o ToString(k)
clusterId(roundId, sideIndex, j) ==
  "r" \o ToString(roundId) \o "-s" \o ToString(sideIndex)
      \o "-c" \o ToString(j)
stitchIdMut(roundId, sideIndex, j, offsetMultiplier) ==
  "r" \o ToString(roundId) \o "-s" \o ToString(sideIndex)
      \o "-dc" \o ToString(offsetMultiplier + 1)
stitchId(roundId, sideIndex, j, offsetMultiplier) ==
  clusterId(roundId, sideIndex, j) \o "-dc" \o ToString(offsetMultiplier + 1)

cornerChains(roundId, sideIndex, pos1, pos2) ==
  << [id |-> cornerChainId(roundId, sideIndex, 1), kind |-> "chain", pos |-> pos1],
     [id |-> cornerChainId(roundId, sideIndex, 2), kind |-> "chain", pos |-> pos2] >>

stitchOffsetMut(width) == Mul(width, Frac(8, 5))
stitchOffset(width) == Mul(width, Frac(4, 5))

individualStitchesMut(roundId, sideIndex, j, centerPos, width) ==
  [k \in 1..3 |->
    LET offsetMultiplier == k - 2
        d == Mul(Num(offsetMultiplier), stitchOffset(width))
    IN  [id |-> stitchId(roundId, sideIndex, j, offsetMultiplier),
         kind |-> "dc",
         pos |-> IF isVerticalSide(sideIndex)
                   THEN Vec(Add(centerPos.x, d), centerPos.y)
                   ELSE Vec(centerPos.x, Add(centerPos.y, d))]]
individualStitches(roundId, sideIndex, j, centerPos, width) ==
  [k \in 1..3 |->
    LET offsetMultiplier == k - 2
        d == Mul(Num(offsetMultiplier), stitchOffset(width))
    IN  [id |-> stitchId(roundId, sideIndex, j, offsetMultiplier),
         kind |-> "dc",
         pos |-> IF isVerticalSide(sideIndex)
                   THEN Vec(centerPos.x, Add(centerPos.y, d))
                   ELSE Vec(Add(centerPos.x, d), centerPos.y)]]

\* prev ? { roundId: prev.id, side: sideIndex, slotIndex: j, type } : undefined
anchorRefOfMut(prev, sideIndex, j, type) ==
  IF prev = <<>> THEN <<>>
  ELSE << [roundId |-> prev[1].id, side |-> (sideIndex + 1) % 4,
           slotIndex |-> j, type |-> type] >>
anchorRefOf(prev, sideIndex, j, type) ==
  IF prev = <<>> THEN <<>>
  ELSE << [roundId |-> prev[1].id, side |-> sideIndex,
           slotIndex |-> j, type |-> type] >>

\* corner-chain-1, the midpoint of each pair of adjacent clusters, corner-chain-2
anchorsOfSideMut(typed, pos1, clusters, pos2) ==
  LET ty(t) == IF typed THEN t ELSE "none"
  IN  << [pos |-> pos1, type |-> ty("corner")] >>
      \o (IF Len(clusters) <= 1 THEN <<>>
          ELSE [j \in 1..(Len(clusters) - 1) |->
                 [pos |-> clusters[j].centerPos, type |-> ty("side-space")]])
      \o << [pos |-> pos2, type |-> ty("corner")] >>
anchorsOfSide(typed, pos1, clusters, pos2) ==
  LET ty(t) == IF typed THEN t ELSE "none"
  IN  << [pos |-> pos1, type |-> ty("corner")] >>
      \o (IF Len(clusters) <= 1 THEN <<>>
          ELSE [j \in 1..(Len(clusters) - 1) |->
                 [pos |-> vecLerp(clusters[j].centerPos, clusters[j + 1].centerPos, Half),
                  type |-> ty("side-space")]])
      \o << [pos |-> pos2, type |-> ty("corner")] >>

\* roundId === 0: no clusters, one anchor at the midpoint of the side
foundationSide(typed, geo, side) ==
  LET ep == sideEndpoints(geo.corners, side)
  IN  [side |-> side,
       clusters |-> <<>>,
       cornerChains |-> <<>>,
       anchorsOnThisSide |->
         << [pos |-> vecLerp(ep[1], ep[2], Half),
             type |-> IF typed THEN "center-ring" ELSE "none"] >>]

\* the anchor lookup anchorsOnThisSide[j] of the chart compilers is undefined
\* for some cluster slot, and reading .type / .x of it raises a TypeError
chartThrows(prev, roundId) ==
  /\ roundId # 0
  /\ prev # <<>>
  /\ \E sideIndex \in 0..3 : \E j \in 0..(numClusters(roundId) - 1) :
       j >= Len(prev[1].sides[sideIndex].anchorsOnThisSide)

\* the stitch-view compiler never reads the previous round's anchors
stitchThrows(prev, roundId) == FALSE

chartCenterPosMut(prev, roundId, p0, p1, sideIndex, j, stitchHeight) ==
  pinToSide(vecLerp(p0, p1, clusterCenterT(roundId, j)), p0, sideIndex)
chartCenterPos(prev, roundId, p0, p1, sideIndex, j, stitchHeight) ==
  LET raw ==
        IF prev # <<>>
          THEN LET prevAnchorPos ==
                     prev[1].sides[sideIndex].anchorsOnThisSide[j + 1].pos
               IN  IF isVerticalSide(sideIndex)
                     THEN Vec(Add(prevAnchorPos.x, stitchHeight), prevAnchorPos.y)
                     ELSE Vec(prevAnchorPos.x, Sub(prevAnchorPos.y, stitchHeight))
          ELSE vecLerp(p0, p1, clusterCenterT(roundId, j))
  IN  pinToSide(raw, p0, sideIndex)

chartSide(typed, prev, roundId, geo, sideIndex, stitchHeight, stitchWidth) ==
  LET ep == sideEndpoints(geo.corners, sideIndex)
      p0 == ep[1]
      p1 == ep[2]
      cornerChain1Pos == pinToSide(vecLerp(p0, p1, cornerT1(roundId)), p0, sideIndex)
      cornerChain2Pos == pinToSide(vecLerp(p0, p1, cornerT2(roundId)), p0, sideIndex)
      cluster(j) ==
        LET anchorType ==
              IF prev = <<>> THEN "none"
              ELSE prev[1].sides[sideIndex].anchorsOnThisSide[j + 1].type
            refType ==
              IF ~typed THEN "none"
              ELSE IF anchorType = "none" THEN "side-space" ELSE anchorType
            centerPos ==
              chartCenterPos(prev, roundId, p0, p1, sideIndex, j, stitchHeight)
        IN  [id |-> clusterId(roundId, sideIndex, j),
             side |-> sideIndex,
             centerPos |-> centerPos,
             stitches |->
               individualStitches(roundId, sideIndex, j, centerPos, stitchWidth),
             anchorRef |-> anchorRefOf(prev, sideIndex, j, refType)]
      clusters == [k \in 1..numClusters(roundId) |-> cluster(k - 1)]
  IN  [side |-> sideIndex,
       clusters |-> clusters,
       cornerChains |-> cornerChains(roundId, sideIndex, cornerChain1Pos, cornerChain2Pos),
       anchorsOnThisSide |->
         anchorsOfSide(typed, cornerChain1Pos, clusters, cornerChain2Pos)]

stitchSide(prev, roundId, geo, sideIndex, stitchHeight, stitchWidth) ==
  LET ep == sideEndpoints(geo.corners, sideIndex)
      p0 == ep[1]
      p1 == ep[2]
      sideLength == hypot(Sub(p1.x, p0.x), Sub(p1.y, p0.y))
      dynamicStitchWidth == DivInt(sideLength, numStitchUnitsPerSide(roundId))
      cornerChain1Pos == vecLerp(p0, p1, cornerT1(roundId))
      cornerChain2Pos == vecLerp(p0, p1, cornerT2(roundId))
      cluster(j) ==
        LET centerPos == vecLerp(p0, p1, clusterCenterT(roundId, j))
        IN  [id |-> clusterId(roundId, sideIndex, j),
             side |-> sideIndex,
             centerPos |-> centerPos,
             stitches |->
               individualStitches(roundId, sideIndex, j, centerPos, dynamicStitchWidth),
             anchorRef |-> anchorRefOf(prev, sideIndex, j, "none")]
      clusters == [k \in 1..numClusters(roundId) |-> cluster(k - 1)]
  IN  [side |-> sideIndex,
       clusters |-> clusters,
       cornerChains |-> cornerChains(roundId, sideIndex, cornerChain1Pos, cornerChain2Pos),
       anchorsOnThisSide |->
         anchorsOfSide(FALSE, cornerChain1Pos, clusters, cornerChain2Pos)]

\* The result of a call: threw = TRUE (a TypeError, no round) or the round.
Threw == [threw |-> TRUE, round |-> <<>>]
Returned(round) == [threw |-> FALSE, round |-> <<round>>]

compileRoundForChartView(typed, prev, roundId, center, r, stitchHeight, stitchWidth) ==
  LET geo == buildRoundGeo(roundId, center, r)
  IN  IF roundId = 0
        THEN Returned([id |-> roundId, geo |-> geo,
                       sides |-> [i \in 0..3 |-> foundationSide(typed, geo, i)]])
      ELSE IF chartThrows(prev, roundId) THEN Threw
      ELSE Returned([id |-> roundId, geo |-> geo,
                     sides |-> [i \in 0..3 |->
                        chartSide(typed, prev, roundId, geo, i,
                                  stitchHeight, stitchWidth)]])

compileRoundForStitchViewMut(prev, roundId, center, r, stitchHeight, stitchWidth) ==
  LET geo == buildRoundGeo(roundId, center, r)
  IN  IF roundId = 0
        THEN Returned([id |-> roundId, geo |-> geo,
                       sides |-> [i \in 0..3 |-> foundationSide(FALSE, geo, i)]])
      ELSE Returned([id |-> roundId, geo |-> geo,
                     sides |-> [i \in 0..3 |->
                        stitchSide(<<>>, roundId, geo, i,
                                   stitchHeight, stitchWidth)]])
compileRoundForStitchView(prev, roundId, center, r, stitchHeight, stitchWidth) ==
  LET geo == buildRoundGeo(roundId, center, r)
  IN  IF roundId = 0
        THEN Returned([id |-> roundId, geo |-> geo,
                       sides |-> [i \in 0..3 |-> foundationSide(FALSE, geo, i)]])
      ELSE IF stitchThrows(prev, roundId) THEN Threw
      ELSE Returned([id |-> roundId, geo |-> geo,
                     sides |-> [i \in 0..3 |->
                        stitchSide(prev, roundId, geo, i,
                                   stitchHeight, stitchWidth)]])

\* ------------------------------------------------------------ buildRounds
VARIABLES
  radii,         \* the radii list handed to buildRounds (1-based; radii[i + 1] is the source's radii[i])
  center, stitchHeight, stitchWidth,
  typedAnchors,  \* TRUE: the copy of the module whose anchors carry an AnchorType
  isChartView,   \* pitch policy: TRUE fixed pitch, FALSE proportional pitch
  rounds,        \* const rounds: Round[]
  i,             \* the loop index of buildRounds
  pc,            \* "loop", "done" (returned rounds) or "error" (an exception left buildRounds)
  call,          \* a direct call of a round compiler: <<>> or <<[prev, roundId, r, result]>>
  pattern,       \* the written pattern made from rounds: <<>> or <<pattern>>
  first,         \* the round list an earlier, finished call of buildRounds returned: <<>> or <<rounds>>
  sidesOut,      \* the sides of the last round computed again one by one: side index -> Side
  app            \* the mounted component after its last render: <<>> or <<state, memoized values>>

vars == <<radii, center, stitchHeight, stitchWidth, typedAnchors, isChartView,
          rounds, i, pc, call, pattern, first, sidesOut, app>>

RadiusVals == 1..MaxRadius
StitchVals == 1..MaxStitch
CenterVals == {Vec(Num(c), Num(-c)) : c \in 0..MaxCenter}
RadiiLists == UNION {[1..n -> RadiusVals] : n \in 0..MaxRounds}

\* isChartView ? compileRoundForChartView(...) : compileRoundForStitchView(...)
compileRoundMut(prev, roundId, r) ==
  LET cached == IF call # <<>> THEN call[1].r ELSE r
  IN  IF isChartView
        THEN compileRoundForChartView(typedAnchors, prev, roundId, center, Num(cached),
                                      Num(stitchHeight), Num(stitchWidth))
        ELSE compileRoundForStitchView(prev, roundId, center, Num(cached),
                                       Num(stitchHeight), Num(stitchWidth))
compileRound(prev, roundId, r) ==
  IF isChartView
    THEN compileRoundForChartView(typedAnchors, prev, roundId, center, Num(r),
                                  Num(stitchHeight), Num(stitchWidth))
    ELSE compileRoundForStitchView(prev, roundId, center, Num(r),
                                   Num(stitchHeight), Num(stitchWidth))

\* const prevRound = i === 0 ? null : rounds[i - 1]
prevRoundMut == <<>>
prevRound == IF i = 0 THEN <<>> ELSE <<rounds[i]>>

\* compile(prevRound, i, ..., radii[i], ...)
compileNextMut ==
  compileRound(prevRound, i, radii[1])
compileNext ==
  compileRound(prevRound, i, radii[i + 1])

Init ==
  /\ radii \in RadiiLists
  /\ center \in CenterVals
  /\ stitchHeight \in StitchVals
  /\ stitchWidth \in StitchVals
  /\ typedAnchors \in BOOLEAN
  /\ isChartView \in BOOLEAN
  /\ typedAnchors => isChartView
  /\ rounds = <<>>
  /\ i = 0
  /\ pc = "loop"
  /\ call = <<>>
  /\ pattern = <<>>
  /\ first = <<>>
  /\ sidesOut = <<>>
  /\ app = <<>>

\* i < radii.length
loopConditionMut == i < Len(radii) - 1
loopCondition == i < Len(radii)

\* one iteration of the for loop
Step ==
  /\ pc = "loop"
  /\ loopCondition
  /\ LET result == compileNext
     IN  IF result.threw
           THEN /\ pc' = "error"
                /\ UNCHANGED <<rounds, i>>
           ELSE /\ rounds' = Append(rounds, result.round[1])
                /\ i' = i + 1
                /\ pc' = pc
  /\ UNCHANGED <<radii, center, stitchHeight, stitchWidth, typedAnchors,
                 isChartView, call, pattern, first, sidesOut, app>>

\* return rounds
Return ==
  /\ pc = "loop"
  /\ i = Len(radii)
  /\ pc' = "done"
  /\ UNCHANGED <<radii, center, stitchHeight, stitchWidth, typedAnchors,
                 isChartView, rounds, i, call, pattern, first, sidesOut, app>>

Next == Step \/ Return

Spec == Init /\ [][Next]_vars

\* buildRounds is sequential code: while a statement remains it is executed.
\* Advance is the control part of Next (the loop test, the counter and pc); it
\* is enabled exactly where the loop body or the return statement is.
Advance ==
  /\ pc = "loop"
  /\ \/ loopCondition /\ i' = i + 1 /\ pc' = "loop"
     \/ loopCondition /\ i' = i /\ pc' = "error"
     \/ i = Len(radii) /\ i' = i /\ pc' = "done"

SpecLive == Init /\ [][Next]_vars /\ WF_<<i, pc>>(Advance)

\* ------------------------------------------- a round compiler called directly
\* The compiler is applied to a previous round taken from a finished build (or
\* to null) and to any round id, whether or not the two belong together.
DirectCall ==
  /\ pc = "done"
  /\ call = <<>>
  /\ \E prev \in {<<>>} \cup {<<rounds[k]>> : k \in {Len(rounds)} \ {0}} :
     \E roundId \in 0..MaxRounds :
     \E r \in RadiusVals :
       call' = << [prev |-> prev, roundId |-> roundId, r |-> r,
                   result |-> compileRound(prev, roundId, r)] >>
  /\ UNCHANGED <<radii, center, stitchHeight, stitchWidth, typedAnchors,
                 isChartView, rounds, i, pc, pattern, first, sidesOut, app>>

NextCompile == Step \/ Return \/ DirectCall

SpecCompile == Init /\ [][NextCompile]_vars

\* ------------------------------------------------ buildRounds called twice
\* buildRounds is called, some other compiler call may follow, and buildRounds
\* is called again with the same arguments.
OtherCall ==
  /\ pc = "done"
  /\ first = <<>>
  /\ call = <<>>
  /\ call' = << [prev |-> <<>>, roundId |-> 1, r |-> MaxRadius + 1,
                 result |-> compileRound(<<>>, 1, MaxRadius + 1)] >>
  /\ UNCHANGED <<radii, center, stitchHeight, stitchWidth, typedAnchors,
                 isChartView, rounds, i, pc, pattern, first, sidesOut, app>>

Again ==
  /\ pc = "done"
  /\ first = <<>>
  /\ first' = <<rounds>>
  /\ rounds' = <<>>
  /\ i' = 0
  /\ pc' = "loop"
  /\ UNCHANGED <<radii, center, stitchHeight, stitchWidth, typedAnchors,
                 isChartView, call, pattern, sidesOut, app>>

NextTwice == Step \/ Return \/ OtherCall \/ Again

SpecTwice == Init /\ [][NextTwice]_vars

\* ------------------------------------------- the sides of a round, one by one
\* The callback of [0, 1, 2, 3].map for round n: its locals (clusters,
\* anchorsOnThisSide, the corner-chain positions) are created by each call.
mapCallback(n, sideIndex) ==
  LET geo == buildRoundGeo(n, center, Num(radii[n + 1]))
  IN  IF n = 0 THEN foundationSide(typedAnchors, geo, sideIndex)
      ELSE IF isChartView
        THEN chartSide(typedAnchors, <<rounds[n]>>, n, geo, sideIndex,
                       Num(stitchHeight), Num(stitchWidth))
        ELSE stitchSide(<<rounds[n]>>, n, geo, sideIndex,
                        Num(stitchHeight), Num(stitchWidth))

\* the side of the last round of the list
compileSideMut(sideIndex) ==
  LET own == mapCallback(Len(rounds) - 1, sideIndex)
  IN  IF DOMAIN sidesOut = {} THEN own
      ELSE [own EXCEPT !.clusters =
              sidesOut[CHOOSE t \in DOMAIN sidesOut : TRUE].clusters \o @]
compileSide(sideIndex) == mapCallback(Len(rounds) - 1, sideIndex)

\* The four sides of the last round are computed again, in any order.
SideStep ==
  /\ pc = "done"
  /\ Len(rounds) >= 1
  /\ \E sideIndex \in (0..3) \ DOMAIN sidesOut :
       sidesOut' = sidesOut @@ (sideIndex :> compileSide(sideIndex))
  /\ UNCHANGED <<radii, center, stitchHeight, stitchWidth, typedAnchors,
                 isChartView, rounds, i, pc, call, pattern, first, app>>

NextSides == Step \/ Return \/ SideStep

SpecSides == Init /\ [][NextSides]_vars

\* ------------------------------------------------------- the written pattern
\* The generators build a text; the model keeps of each pushed instruction what
\* the text says: the label "Round <number>", which of the two templates it is
\* ("ring": stitches worked into the ring; "corners": corner groups and the
\* sides between them), the value of sideClusters when the branch computes one
\* (a sequence of length 0 or 1), and the wording of the side part with the
\* number printed in it:
\*   "none"   no side part                          "once"   worked one time
\*   "times"  "[...] <printed> time(s)"             "more"   "Repeat ... <printed> more time(s)"
\*   "until"  "Repeat until you reach the next corner"
\* roundId is the id of the round the callback was called with.
Copies == {"part_001", "part_002", "tsx_221", "tsx_771"}

RoundStep(id, n, template, sideClusters, side, printed) ==
  [roundId |-> id, label |-> "Round " \o ToString(n), template |-> template,
   sideClusters |-> sideClusters, side |-> side, printed |-> printed]

sideClustersOfMut(round) == round.id
sideClustersOf(round) == round.id - 1

\* sideInstruction of part_001: the wording chosen from its argument
sideInstruction(sideClusters) ==
  IF sideClusters = 0 THEN "none"
  ELSE IF sideClusters = 1 THEN "once" ELSE "until"

\* the forEach callbacks: the instructions one round pushes (none or one)
roundStep_part001(round) ==
  LET n == round.id + 1
  IN  IF n = 1 THEN << RoundStep(round.id, n, "ring", <<>>, "none", <<>>) >>
      ELSE IF n >= 3
        THEN << RoundStep(round.id, n, "corners", <<sideClustersOf(round)>>,
                          sideInstruction(sideClustersOf(round)), <<>>) >>
        ELSE << RoundStep(round.id, n, "corners", <<>>, "none", <<>>) >>

roundStep_part002(round) ==
  LET n == round.id + 1
  IN  IF n = 0 THEN <<>>
      ELSE IF n = 1 THEN << RoundStep(round.id, n, "ring", <<>>, "none", <<>>) >>
      ELSE LET sideClusters == sideClustersOf(round)
           IN  IF sideClusters > 0
                 THEN << RoundStep(round.id, n, "corners", <<sideClusters>>,
                                   "times", <<sideClusters>>) >>
                 ELSE << RoundStep(round.id, n, "corners", <<sideClusters>>,
                                   "none", <<>>) >>

roundStep_tsx221(round) ==
  IF round.id = 0 THEN <<>>
  ELSE IF round.id = 1
    THEN << RoundStep(round.id, round.id, "ring", <<>>, "none", <<>>) >>
  ELSE LET sideClusters == sideClustersOf(round)
       IN  IF sideClusters > 0
             THEN << RoundStep(round.id, round.id, "corners", <<sideClusters>>,
                               "times", <<sideClusters>>) >>
             ELSE << RoundStep(round.id, round.id, "corners", <<sideClusters>>,
                               "none", <<>>) >>

roundStep_tsx771(round) ==
  LET n == round.id + 1
  IN  IF round.id = 0 THEN <<>>
      ELSE IF n = 2 THEN << RoundStep(round.id, n, "ring", <<>>, "none", <<>>) >>
      ELSE LET sideClusters == sideClustersOf(round)
           IN  IF sideClusters > 0
                 THEN << RoundStep(round.id, n, "corners", <<sideClusters>>,
                                   "more", <<sideClusters - 1>>) >>
                 ELSE << RoundStep(round.id, n, "corners", <<sideClusters>>,
                                   "none", <<>>) >>

roundStep(copy, round) ==
  CASE copy = "part_001" -> roundStep_part001(round)
    [] copy = "part_002" -> roundStep_part002(round)
    [] copy = "tsx_221"  -> roundStep_tsx221(round)
    [] copy = "tsx_771"  -> roundStep_tsx771(round)

RECURSIVE forEach(_, _, _)
forEach(copy, rs, k) ==
  IF k > Len(rs) THEN <<>>
  ELSE roundStep(copy, rs[k]) \o forEach(copy, rs, k + 1)

\* "No pattern to display." for an empty list; otherwise the "Start: ..."
\* instruction followed by the instructions the rounds push.
generateWrittenPattern(copy, rs) ==
  IF Len(rs) = 0
    THEN [copy |-> copy, empty |-> TRUE, steps |-> <<>>]
    ELSE [copy |-> copy, empty |-> FALSE, steps |-> forEach(copy, rs, 1)]

\* The controller renders the pattern of the built rounds.  The typed compiler
\* is in the file of generator part_001; the two-policy file has no generator.
GenerateMut ==
  /\ pc = "done"
  /\ isChartView
  /\ pattern = <<>>
  /\ \E copy \in IF typedAnchors THEN {"part_001"} ELSE Copies \ {"part_001"} :
       pattern' = << generateWrittenPattern(copy, rounds) >>
  /\ rounds' = IF rounds = <<>> THEN rounds ELSE Tail(rounds)
  /\ UNCHANGED <<radii, center, stitchHeight, stitchWidth, typedAnchors,
                 isChartView, i, pc, call, first, sidesOut, app>>
Generate ==
  /\ pc = "done"
  /\ isChartView
  /\ pattern = <<>>
  /\ \E copy \in IF typedAnchors THEN {"part_001"} ELSE Copies \ {"part_001"} :
       pattern' = << generateWrittenPattern(copy, rounds) >>
  /\ UNCHANGED <<radii, center, stitchHeight, stitchWidth, typedAnchors,
                 isChartView, rounds, i, pc, call, first, sidesOut, app>>

NextPattern == Step \/ Return \/ Generate

SpecPattern == Init /\ [][NextPattern]_vars

\* ------------------------------------------------ radii of any sign and order
\* buildRounds takes a number[]: nothing in it or in the compilers tests the
\* radii, so the list may hold zero, negative, equal and decreasing values.
AnyRadiusVals == {-1, 0, MaxRadius}
AnyRadiiLists == UNION {[1..n -> AnyRadiusVals] : n \in 0..MaxRounds}

InitAnyRadii ==
  /\ radii \in AnyRadiiLists
  /\ center \in CenterVals
  /\ stitchHeight \in StitchVals
  /\ stitchWidth \in StitchVals
  /\ typedAnchors \in BOOLEAN
  /\ isChartView \in BOOLEAN
  /\ typedAnchors => isChartView
  /\ rounds = <<>>
  /\ i = 0
  /\ pc = "loop"
  /\ call = <<>>
  /\ pattern = <<>>
  /\ first = <<>>
  /\ sidesOut = <<>>
  /\ app = <<>>

SpecAnyRadii == InitAnyRadii /\ [][Next]_vars

\* --------------------------------------- the same build under both policies
\* In the file that holds both compilers, buildRounds is called with
\* isChartView, and then again with the same arguments and the other policy.
SwitchPolicy ==
  /\ pc = "done"
  /\ ~typedAnchors
  /\ first = <<>>
  /\ first' = <<rounds>>
  /\ isChartView' = ~isChartView
  /\ rounds' = <<>>
  /\ i' = 0
  /\ pc' = "loop"
  /\ UNCHANGED <<radii, center, stitchHeight, stitchWidth, typedAnchors,
                 call, pattern, sidesOut, app>>

NextPolicies == Step \/ Return \/ SwitchPolicy

SpecPolicies == Init /\ [][NextPolicies]_vars

\* ------------------------------------------------ the parameter controller
\* The React components that own the parameters.  A change handler sets one
\* state value and the component renders again; the render computes radii,
\* rounds and writtenPattern through useMemo, which keeps the value of the
\* last render unless one of its dependencies changed.  A handler and the
\* render it causes are one step: no code sees the new state before the render.
\*
\* app[1] is the component after its last render: its useState values (state)
\* and the memoized values with the dependencies they were computed from.
\* radiiRef stands for the identity of the radii array: a recomputed array is
\* a new object, which the rounds memo notices.
Components ==
  {"part_001_App", "part_001_GrannySquareGenerator", "tsx_GrannySquareGenerator"}

DEFAULTS(component) ==
  IF component = "part_001_App"
    THEN [N_ROUNDS |-> 4, STITCH_WIDTH |-> 12, STITCH_HEIGHT |-> 12,
          SHOW_STITCHES |-> TRUE, PALETTE_NAME |-> "Sunset Glow",
          REPETITION_METHOD |-> "sequential"]
    ELSE [N_ROUNDS |-> 4, STITCH_WIDTH |-> 24, STITCH_HEIGHT |-> 24,
          SHOW_STITCHES |-> TRUE, PALETTE_NAME |-> "Sunset Glow",
          REPETITION_METHOD |-> "sequential"]

useState(component) ==
  [component |-> component,
   nRounds |-> DEFAULTS(component).N_ROUNDS,
   stitchWidth |-> DEFAULTS(component).STITCH_WIDTH,
   stitchHeight |-> DEFAULTS(component).STITCH_HEIGHT,
   isChartView |-> TRUE,
   showStitches |-> DEFAULTS(component).SHOW_STITCHES,
   selectedPaletteName |-> DEFAULTS(component).PALETTE_NAME,
   repetitionMethod |-> DEFAULTS(component).REPETITION_METHOD]

\* the values the inputs can hand to the handlers
RoundInputs == {<<>>} \cup {<<n>> : n \in (-1)..MaxRounds}
StitchInputs(component) ==
  IF component = "part_001_App" THEN {4, 12} ELSE {8, 24}
PaletteNames == {"Sunset Glow", "Ocean Blues"}
RepetitionMethods == {"sequential", "alternating"}

\* Math.max(1, Number(e.target.value) || 1); <<>> is NaN
clampRoundsMut(v) == IF v = <<>> \/ v[1] = 0 THEN 1 ELSE v[1]
clampRounds(v) ==
  LET n == IF v = <<>> \/ v[1] = 0 THEN 1 ELSE v[1]
  IN  IF n > 1 THEN n ELSE 1

\* r0 = stitchWidth / Math.sqrt(2); r.push(r[i - 1] + step)
radiiOf(st) ==
  LET count == IF st.component = "part_001_GrannySquareGenerator"
                 THEN st.nRounds + 1 ELSE st.nRounds
      step == IF st.component = "part_001_App"
                THEN Mul(Num(2), Num(st.stitchHeight))
                ELSE Mul(Frac(5, 2), Num(st.stitchHeight))
      r[k \in 1..count] ==
        IF k = 1 THEN DivInt(Mul(Num(st.stitchWidth), Sqrt2), 2)
        ELSE Add(r[k - 1], step)
  IN  IF st.nRounds > 0 THEN [k \in 1..count |-> r[k]] ELSE <<>>

\* buildRounds as a function of its arguments, over exact radii
buildRounds(rad, c, sh, sw, typed, chart) ==
  LET compile(prev, k) ==
        IF chart
          THEN compileRoundForChartView(typed, prev, k, c, rad[k + 1], Num(sh), Num(sw))
          ELSE compileRoundForStitchView(prev, k, c, rad[k + 1], Num(sh), Num(sw))
      push(before, result) ==
        IF result.threw
          THEN [threw |-> TRUE, rounds |-> before.rounds]
          ELSE [threw |-> FALSE, rounds |-> Append(before.rounds, result.round[1])]
      \* one iteration of the loop, on the list built so far
      iteration(before, k) ==
        IF before.threw THEN before
        ELSE CHOOSE next \in
               {push(before, result) : result \in
                  {compile(IF k = 1 THEN <<>> ELSE <<before.rounds[k - 1]>>, k - 1)}} : TRUE
      built[k \in 0..Len(rad)] ==
        IF k = 0 THEN [threw |-> FALSE, rounds |-> <<>>]
        ELSE CHOOSE next \in {iteration(before, k) : before \in {built[k - 1]}} : TRUE
  IN  built[Len(rad)]

buildOf(st, rad) ==
  buildRounds(rad, Vec(Num(0), Num(0)), st.stitchHeight, st.stitchWidth,
              st.component = "part_001_GrannySquareGenerator",
              st.component # "part_001_App" \/ st.isChartView)

\* the dependency arrays of the two useMemo calls
radiiDeps(st) == <<st.nRounds, st.stitchWidth, st.stitchHeight>>
roundsDepsMut(st, radiiRef) == <<radiiRef, st.stitchHeight, st.stitchWidth>>
roundsDeps(st, radiiRef) ==
  IF st.component = "part_001_App"
    THEN <<radiiRef, st.stitchHeight, st.stitchWidth, st.isChartView>>
    ELSE <<radiiRef, st.stitchHeight, st.stitchWidth>>

\* one render of the component with state st after the render old (<<>>: the
\* first render)
render(old, st) ==
  LET radiiFresh == old = <<>> \/ old[1].radiiDeps # radiiDeps(st)
      rad == IF radiiFresh THEN radiiOf(st) ELSE old[1].radii
      radiiRef == IF old = <<>> THEN 0
                  ELSE IF radiiFresh THEN 1 - old[1].radiiRef ELSE old[1].radiiRef
      roundsFresh == old = <<>> \/ old[1].roundsDeps # roundsDeps(st, radiiRef)
      writtenPattern(rs) ==
        IF st.component = "part_001_App" THEN <<>>
        ELSE IF roundsFresh
          THEN << generateWrittenPattern(
                    IF st.component = "part_001_GrannySquareGenerator"
                      THEN "part_001" ELSE "tsx_771", rs) >>
          ELSE old[1].writtenPattern
      \* each memo computes its value once a render; the later ones read it
      memoRadii == {rad}
      memoRounds(radii_) ==
        {IF roundsFresh THEN buildOf(st, radii_)
         ELSE [threw |-> old[1].threw, rounds |-> old[1].rounds]}
      rendered(radii_, built) ==
        [state |-> st,
         radii |-> radii_, radiiRef |-> radiiRef, radiiDeps |-> radiiDeps(st),
         rounds |-> built.rounds, roundsDeps |-> roundsDeps(st, radiiRef),
         threw |-> built.threw,
         writtenPattern |-> writtenPattern(built.rounds)]
  IN  CHOOSE out \in UNION {{rendered(radii_, built) : built \in memoRounds(radii_)}
                              : radii_ \in memoRadii} : TRUE

InitApp ==
  /\ radii = <<>>
  /\ center = Vec(Num(0), Num(0))
  /\ stitchHeight = 1
  /\ stitchWidth = 1
  /\ typedAnchors = FALSE
  /\ isChartView = TRUE
  /\ rounds = <<>>
  /\ i = 0
  /\ pc = "done"
  /\ call = <<>>
  /\ pattern = <<>>
  /\ first = <<>>
  /\ sidesOut = <<>>
  /\ app \in {<< render(<<>>, useState(component)) >> : component \in Components}

\* The change handlers, each as the set of states it can set from the
\* state of the last render (one state per value its input can hand over).
SetNRounds(state) ==
  {[state EXCEPT !.nRounds = clampRounds(v)] : v \in RoundInputs}

SetStitchWidth(state) ==
  {[state EXCEPT !.stitchWidth = v] : v \in StitchInputs(state.component)}

SetStitchHeight(state) ==
  {[state EXCEPT !.stitchHeight = v] : v \in StitchInputs(state.component)}

SetIsChartView(state) ==
  IF state.component = "part_001_App"
    THEN {[state EXCEPT !.isChartView = ~@]} ELSE {}

SetShowStitches(state) ==
  {[state EXCEPT !.showStitches = ~@]}

SetSelectedPaletteName(state) ==
  IF state.component # "part_001_App"
    THEN {[state EXCEPT !.selectedPaletteName = v] : v \in PaletteNames} ELSE {}

SetRepetitionMethod(state) ==
  IF state.component # "part_001_App"
    THEN {[state EXCEPT !.repetitionMethod = v] : v \in RepetitionMethods} ELSE {}

handleReset(state) ==
  IF state.component # "part_001_App"
    THEN {useState(state.component)} ELSE {}

Handlers(state) ==
  SetNRounds(state) \cup SetStitchWidth(state) \cup SetStitchHeight(state)
    \cup SetIsChartView(state) \cup SetShowStitches(state)
    \cup SetSelectedPaletteName(state) \cup SetRepetitionMethod(state)
    \cup handleReset(state)

\* a handler has set the state to st; the component renders
Rerender ==
  /\ app # <<>>
  /\ \E st \in Handlers(app[1].state) : app' = << render(app, st) >>
  /\ UNCHANGED <<radii, center, stitchHeight, stitchWidth, typedAnchors,
                 isChartView, rounds, i, pc, call, pattern, first, sidesOut>>

NextApp == Rerender

SpecApp == InitApp /\ [][NextApp]_vars

\* ----------------------------------- the same build with another stitchHeight
\* The fixed-pitch buildRounds is called, and then again with the same radii,
\* center and stitchWidth and a different stitchHeight.
ChangeHeight ==
  /\ pc = "done"
  /\ isChartView
  /\ first = <<>>
  /\ first' = <<rounds>>
  /\ \E h \in StitchVals \ {stitchHeight} : stitchHeight' = h
  /\ rounds' = <<>>
  /\ i' = 0
  /\ pc' = "loop"
  /\ UNCHANGED <<radii, center, stitchWidth, typedAnchors, isChartView,
                 call, pattern, sidesOut, app>>

NextHeights == Step \/ Return \/ ChangeHeight

SpecHeights == Init /\ [][NextHeights]_vars

\* ------------------------------------------------------------- properties
\* Helpers of the properties.  They read the compiled rounds only; none of
\* them calls the compiler.
RoundIds == {k - 1 : k \in 1..Len(rounds)}
RoundOf(n) == rounds[n + 1]
GrownIds == {n \in RoundIds : RoundOf(n).id >= 1}
SideIndices == 0..3
SideOf(n, s) == RoundOf(n).sides[s]
ClusterSlots(n, s) == {j - 1 : j \in 1..Len(SideOf(n, s).clusters)}
ClusterOf(n, s, j) == SideOf(n, s).clusters[j + 1]

\* the start and end corner of side s of round n
P0(n, s) == RoundOf(n).geo.corners[s]
P1(n, s) == RoundOf(n).geo.corners[(s + 1) % 4]
Horizontal(s) == s \in {0, 2}
\* coordinate of a point along side s, and across it
Along(pos, s) == IF Horizontal(s) THEN pos.x ELSE pos.y
Across(pos, s) == IF Horizontal(s) THEN pos.y ELSE pos.x
Units(n) == IF n = 1 THEN 4 ELSE 3 * n + 2
Times(k, x) == Mul(Num(k), x)

RECURSIVE CountKind(_, _)
CountKind(stitches, kind) ==
  IF stitches = <<>> THEN 0
  ELSE (IF Head(stitches).kind = kind THEN 1 ELSE 0)
       + CountKind(Tail(stitches), kind)

RECURSIVE ClusterStitches(_)
ClusterStitches(clusters) ==
  IF clusters = <<>> THEN <<>>
  ELSE Head(clusters).stitches \o ClusterStitches(Tail(clusters))

SideStitches(n, s) ==
  SideOf(n, s).cornerChains \o ClusterStitches(SideOf(n, s).clusters)

\* C1: every side of every round with id n >= 1 has exactly n clusters of
\* three double crochets each, 3n double crochets in all, and exactly two
\* chain stitches, the two corner chains.
C1_ClusterAndStitchCounts ==
  \A n \in GrownIds : \A s \in SideIndices :
    LET side == SideOf(n, s)
        id == RoundOf(n).id
    IN  /\ Len(side.clusters) = id
        /\ \A j \in ClusterSlots(n, s) :
             /\ Len(ClusterOf(n, s, j).stitches) = 3
             /\ \A k \in 1..3 : ClusterOf(n, s, j).stitches[k].kind = "dc"
        /\ CountKind(SideStitches(n, s), "dc") = 3 * id
        /\ CountKind(SideStitches(n, s), "chain") = 2
        /\ Len(side.cornerChains) = 2
        /\ \A k \in 1..2 : side.cornerChains[k].kind = "chain"

C1_Witness ==
  /\ pc = "done"
  /\ \E n \in GrownIds : RoundOf(n).id = 3 /\ Len(SideOf(n, 2).clusters) = 3

\* C2: on every side of every round with id >= 1 the anchors are, in order,
\* corner-chain-1, the midpoint of each pair of adjacent cluster centers, and
\* corner-chain-2: clusters.length + 1 anchors.
C2_AnchorList ==
  \A n \in GrownIds : \A s \in SideIndices :
    LET side == SideOf(n, s)
        a == side.anchorsOnThisSide
        c == side.clusters
    IN  /\ Len(a) = Len(c) + 1
        /\ a[1].pos = side.cornerChains[1].pos
        /\ a[Len(a)].pos = side.cornerChains[2].pos
        /\ \A k \in 1..(Len(c) - 1) :
             /\ Times(2, a[k + 1].pos.x) = Add(c[k].centerPos.x, c[k + 1].centerPos.x)
             /\ Times(2, a[k + 1].pos.y) = Add(c[k].centerPos.y, c[k + 1].centerPos.y)

C2_Witness ==
  \E n \in GrownIds :
    /\ Len(SideOf(n, 1).anchorsOnThisSide) = 4
    /\ SideOf(n, 1).clusters[1].centerPos # SideOf(n, 1).clusters[2].centerPos

\* the midpoint of side s of the square with the given center and circumradius
SideMidpoint(c, r, s) ==
  LET h == DivInt(Mul(Sqrt2, r), 2)
  IN  CASE s = 0 -> Vec(c.x, Sub(c.y, h))
        [] s = 1 -> Vec(Add(c.x, h), c.y)
        [] s = 2 -> Vec(c.x, Add(c.y, h))
        [] s = 3 -> Vec(Sub(c.x, h), c.y)

\* C3: for a non-empty radii list, round 0 has no clusters and one anchor per
\* side, at the midpoint of that side of round 0's square, typed CenterRing.
C3_FoundationRound ==
  Len(rounds) >= 1 =>
    \A s \in SideIndices :
      LET side == SideOf(0, s)
      IN  /\ RoundOf(0).id = 0
          /\ side.clusters = <<>>
          /\ Len(side.anchorsOnThisSide) = 1
          /\ side.anchorsOnThisSide[1].pos = SideMidpoint(center, Num(radii[1]), s)
          /\ side.anchorsOnThisSide[1].type = "center-ring"

\* C4: buildRounds returns one round per radius, the i-th with id i and built
\* on radii[i]; the empty list gives the empty list; no error is raised; the
\* first round is the foundation round.
C4_OneRoundPerRadius ==
  /\ pc # "error"
  /\ pc = "done" =>
       /\ Len(rounds) = Len(radii)
       /\ \A n \in RoundIds :
            /\ RoundOf(n).id = n
            /\ RoundOf(n).geo.r = Num(radii[n + 1])
            /\ Sub(P1(n, 0).x, P0(n, 0).x) = Mul(Sqrt2, Num(radii[n + 1]))
            /\ RoundOf(n).geo.center = center
       /\ Len(radii) >= 1 =>
            \A s \in SideIndices :
              SideOf(0, s).clusters = <<>> /\ SideOf(0, s).cornerChains = <<>>

C4_Witness ==
  /\ pc = "done"
  /\ Len(radii) >= 3
  /\ radii[1] # radii[3]
  /\ Len(rounds) = Len(radii)

\* C5: in a build every anchorRef names an existing slot of the referenced
\* side of the referenced round, so the lookup of a missing anchor never
\* happens (no exception leaves buildRounds).
C5_AnchorSlotInBounds ==
  /\ pc # "error"
  /\ \A n \in GrownIds : \A s \in SideIndices : \A j \in ClusterSlots(n, s) :
       LET ref == ClusterOf(n, s, j).anchorRef
       IN  /\ ref # <<>>
           /\ ref[1].roundId \in RoundIds
           /\ ref[1].side \in SideIndices
           /\ ref[1].slotIndex >= 0
           /\ ref[1].slotIndex
                < Len(SideOf(ref[1].roundId, ref[1].side).anchorsOnThisSide)

C5_Witness ==
  \E n \in GrownIds : \E s \in SideIndices : \E j \in ClusterSlots(n, s) :
    LET ref == ClusterOf(n, s, j).anchorRef[1]
    IN  /\ n >= 2
        /\ ref.slotIndex + 1
             = Len(SideOf(ref.roundId, ref.side).anchorsOnThisSide)

\* C6: a round compiler called with roundId >= 1 and a previous round whose
\* side has fewer anchors than roundId fails with an error and returns no
\* round.
C6_MissingAnchorFails ==
  call # <<>> =>
    LET c == call[1]
    IN  ( /\ c.roundId >= 1
          /\ c.prev # <<>>
          /\ \E s \in SideIndices :
               Len(c.prev[1].sides[s].anchorsOnThisSide) < c.roundId )
        => (c.result.threw /\ c.result.round = <<>>)

\* C7: every cluster j on side s of round i >= 1 carries the anchorRef
\* {roundId: i - 1, side: s, slotIndex: j}, and the rounds are numbered in
\* the order they were compiled.
C7_AnchorRefToPreviousRound ==
  /\ i = Len(rounds)
  /\ \A n \in RoundIds : RoundOf(n).id = n
  /\ \A n \in GrownIds : \A s \in SideIndices : \A j \in ClusterSlots(n, s) :
       LET ref == ClusterOf(n, s, j).anchorRef
       IN  /\ Len(ref) = 1
           /\ ref[1].roundId = n - 1
           /\ ref[1].side = s
           /\ ref[1].slotIndex = j

C7_Witness ==
  \E n \in GrownIds :
    /\ n = 2
    /\ ClusterOf(n, 3, 1).anchorRef[1].slotIndex = 1
    /\ ClusterOf(n, 3, 1).anchorRef[1].side = 3

\* the anchor of the previous round that cluster j of side s of round n names
ReferencedAnchor(n, s, j) ==
  LET ref == ClusterOf(n, s, j).anchorRef[1]
  IN  SideOf(ref.roundId, ref.side).anchorsOnThisSide[ref.slotIndex + 1]

\* the center lies on side s of round n's square
OnSide(pos, n, s) ==
  /\ Across(pos, s) = Across(P0(n, s), s)
  /\ Across(pos, s) = Across(P1(n, s), s)

\* the point lies at fraction num / den of the way from P0 to P1
AtFraction(pos, n, s, num, den) ==
  Times(den, Sub(Along(pos, s), Along(P0(n, s), s)))
    = Times(num, Sub(Along(P1(n, s), s), Along(P0(n, s), s)))

\* C8 as stated: under either pitch policy, a cluster with a previous round
\* sits at its referenced anchor's coordinate along the side, pinned onto the
\* side of the current round.
C8_CenterFromAnchorAnyPolicy ==
  \A n \in GrownIds : \A s \in SideIndices : \A j \in ClusterSlots(n, s) :
    ClusterOf(n, s, j).anchorRef # <<>> =>
      /\ Along(ClusterOf(n, s, j).centerPos, s)
           = Along(ReferencedAnchor(n, s, j).pos, s)
      /\ OnSide(ClusterOf(n, s, j).centerPos, n, s)

\* C8 amended: under the fixed-pitch policy a cluster with a previous round
\* sits at its referenced anchor's coordinate along the side, pinned onto the
\* side of the current round; under the proportional-pitch policy it sits on
\* the side at the parametric point t = (3j + 2.5) / numStitchUnitsPerSide
\* (t = 0.5 in round 1), whatever the referenced anchor's position.
C8_CenterFromAnchorFixedPitch ==
  \A n \in GrownIds : \A s \in SideIndices : \A j \in ClusterSlots(n, s) :
    ClusterOf(n, s, j).anchorRef # <<>> =>
      /\ OnSide(ClusterOf(n, s, j).centerPos, n, s)
      /\ isChartView =>
           Along(ClusterOf(n, s, j).centerPos, s)
             = Along(ReferencedAnchor(n, s, j).pos, s)
      /\ ~isChartView =>
           IF n = 1
             THEN AtFraction(ClusterOf(n, s, j).centerPos, n, s, 1, 2)
             ELSE AtFraction(ClusterOf(n, s, j).centerPos, n, s,
                             6 * j + 5, 2 * Units(n))

C8_Witness ==
  /\ isChartView
  /\ \E n \in GrownIds : \E s \in SideIndices : \E j \in ClusterSlots(n, s) :
       /\ n >= 2
       /\ ClusterOf(n, s, j).anchorRef # <<>>
       /\ ~AtFraction(ClusterOf(n, s, j).centerPos, n, s, 6 * j + 5, 2 * Units(n))
       /\ Across(ReferencedAnchor(n, s, j).pos, s) # Across(P0(n, s), s)

\* C9: corner-chain-1 lies at fraction 0.5 / U and corner-chain-2 at fraction
\* 1 - 0.5 / U of the way from the side's start corner to its end corner
\* (U = 4 in round 1, 3n + 2 otherwise), both exactly on the side's edge.
C9_CornerChainsOnEdge ==
  \A n \in GrownIds : \A s \in SideIndices :
    LET cc == SideOf(n, s).cornerChains
        U == Units(RoundOf(n).id)
    IN  /\ AtFraction(cc[1].pos, n, s, 1, 2 * U)
        /\ AtFraction(cc[2].pos, n, s, 2 * U - 1, 2 * U)
        /\ OnSide(cc[1].pos, n, s)
        /\ OnSide(cc[2].pos, n, s)

C9_Witness ==
  \E n \in GrownIds : \E s \in SideIndices :
    /\ n >= 2
    /\ Units(n) = 3 * n + 2
    /\ SideOf(n, s).cornerChains[1].pos # SideOf(n, s).cornerChains[2].pos
    /\ SideOf(n, s).cornerChains[1].pos # P0(n, s)

\* the stitch width a round is drawn with: the input under the fixed pitch,
\* sideLength / numStitchUnitsPerSide under the proportional pitch
PitchWidth(n) ==
  IF isChartView THEN Num(stitchWidth)
  ELSE DivInt(Abs(Sub(Along(P1(n, 0), 0), Along(P0(n, 0), 0))), Units(RoundOf(n).id))

\* C10: the three stitches of a cluster lie at the center displaced by -1, 0
\* and +1 times 0.8 * w along the side's own axis, level with the center
\* across it; the middle stitch is the center.
C10_StitchesAroundCenter ==
  \A n \in GrownIds : \A s \in SideIndices : \A j \in ClusterSlots(n, s) :
    LET cl == ClusterOf(n, s, j)
    IN  /\ \A k \in 1..3 :
             /\ Times(5, Sub(Along(cl.stitches[k].pos, s), Along(cl.centerPos, s)))
                  = Times(4 * (k - 2), PitchWidth(n))
             /\ Across(cl.stitches[k].pos, s) = Across(cl.centerPos, s)
        /\ cl.stitches[2].pos = cl.centerPos

C10_Witness ==
  /\ ~isChartView
  /\ \E n \in GrownIds : \E j \in ClusterSlots(n, 1) :
       /\ n >= 2
       /\ ClusterOf(n, 1, j).stitches[1].pos.y # ClusterOf(n, 1, j).stitches[3].pos.y
       /\ PitchWidth(n) # Num(stitchWidth)

Steps == pattern[1].steps
StepIndices == IF pattern = <<>> THEN {} ELSE 1..Len(Steps)
GeneratedBy(copies) == pattern # <<>> /\ pattern[1].copy \in copies

\* how many times the text works the chain-1, 3-dc sequence along one side
SideTimes(step) ==
  CASE step.side = "none"  -> 0
    [] step.side = "once"  -> 1
    [] step.side = "times" -> step.printed[1]
    [] step.side = "more"  -> step.printed[1] + 1
    [] step.side = "until" -> step.sideClusters[1]

\* the 3-dc groups of one turn around the square: the ring template works the
\* opening group and three more; the corner template works two groups in each
\* of the four corners and the side groups on each of the four sides
GroupsWorked(step) ==
  IF step.template = "ring" THEN 4 ELSE 8 + 4 * SideTimes(step)

ClustersOfRound(n) ==
  Len(SideOf(n, 0).clusters) + Len(SideOf(n, 1).clusters)
    + Len(SideOf(n, 2).clusters) + Len(SideOf(n, 3).clusters)

\* C13: no step changes a round that is already in the list: after every
\* compile step and after instruction generation, each earlier round is still
\* in its place with the same value.
C13_EarlierRoundsUnchanged ==
  [][\A k \in 1..Len(rounds) : Len(rounds') >= k /\ rounds'[k] = rounds[k]]_vars

C13_Witness ==
  /\ pattern # <<>>
  /\ Len(rounds) >= 3
  /\ Len(Steps) >= 2

\* C14: for a non-empty round list, the generators of part_002, part_001 and
\* GrannySquareGeneratorGeminiSave.tsx:221 push one round step for each round
\* of id >= 1, in increasing id order, and none for round 0.
C14_OneStepPerGrownRound ==
  (GeneratedBy({"part_002", "part_001", "tsx_221"}) /\ Len(rounds) >= 1) =>
    /\ Len(Steps) = Len(rounds) - 1
    /\ \A k \in StepIndices : Steps[k].roundId = k

\* C15: in the two generators of GrannySquareGeneratorGeminiSave.tsx, the step
\* of a round of id n >= 1 tells to work as many 3-dc groups around the square
\* as the compiled round has clusters, 4n.
C15_GroupsEqualClusters ==
  GeneratedBy({"tsx_221", "tsx_771"}) =>
    \A k \in StepIndices :
      LET n == Steps[k].roundId
      IN  n >= 1 =>
            /\ GroupsWorked(Steps[k]) = ClustersOfRound(n)
            /\ GroupsWorked(Steps[k]) = 4 * n

C17_RingTemplateOnlyForRoundOne ==
  GeneratedBy({"tsx_221", "part_002", "part_001"}) =>
    \A k \in StepIndices :
      LET n == Steps[k].roundId
      IN  /\ Steps[k].template = "ring" <=> n = 1
          /\ n >= 2 =>
               /\ Steps[k].template = "corners"
               /\ Steps[k].sideClusters = <<n - 1>>
               /\ SideTimes(Steps[k]) = n - 1

\* C18: in the generators of GrannySquareGeneratorGeminiSave.tsx (both) and
\* part_002, every round step is labelled with the id of its round plus one.
C18_LabelIsIdPlusOne ==
  GeneratedBy({"tsx_221", "tsx_771", "part_002"}) =>
    \A k \in StepIndices :
      Steps[k].label = "Round " \o ToString(Steps[k].roundId + 1)

\* C19: every anchor has a type: CenterRing for the one anchor of a side of
\* round 0; on later rounds Corner for the first and last anchor of a side and
\* SideSpace between them; the type of a cluster's anchorRef is the type of the
\* anchor it references, which is CenterRing for round 1 and never missing.
C19_AnchorsTyped ==
  \A n \in RoundIds : \A s \in SideIndices :
    LET anchors == SideOf(n, s).anchorsOnThisSide
    IN  /\ n = 0 => Len(anchors) = 1 /\ anchors[1].type = "center-ring"
        /\ n >= 1 =>
             /\ anchors[1].type = "corner"
             /\ anchors[Len(anchors)].type = "corner"
             /\ \A k \in 2..(Len(anchors) - 1) : anchors[k].type = "side-space"
             /\ \A j \in ClusterSlots(n, s) :
                  /\ ClusterOf(n, s, j).anchorRef # <<>>
                  /\ ReferencedAnchor(n, s, j).type # "none"
                  /\ ClusterOf(n, s, j).anchorRef[1].type
                       = ReferencedAnchor(n, s, j).type
                  /\ n = 1 => ClusterOf(n, s, j).anchorRef[1].type = "center-ring"

\* C20: with two radii or more, every side of round 1 has exactly one cluster
\* and its center is the midpoint of that side of round 1's square, under the
\* anchor-derived placement and under the parametric placement alike.
C20_RoundOneClusterAtMidpoint ==
  Len(rounds) >= 2 =>
    \A s \in SideIndices :
      /\ Len(SideOf(1, s).clusters) = 1
      /\ ClusterOf(1, s, 0).centerPos = SideMidpoint(center, Num(radii[2]), s)
      /\ AtFraction(ClusterOf(1, s, 0).centerPos, 1, s, 1, 2)

C20_Witness ==
  /\ Len(rounds) >= 2
  /\ radii[1] # radii[2]
  /\ isChartView
  /\ ClusterOf(1, 3, 0).centerPos = SideMidpoint(center, Num(radii[2]), 3)

\* C21: for radii of any sign and order, buildRounds raises no error and
\* returns one round per radius, built on that radius as given, each side with
\* the cluster, stitch and anchor counts of its round id.
C21_AnyRadiiBuildComplete ==
  /\ pc # "error"
  /\ pc = "done" => Len(rounds) = Len(radii)
  /\ \A n \in RoundIds :
       /\ RoundOf(n).id = n
       /\ RoundOf(n).geo.r = Num(radii[n + 1])
       /\ \A s \in SideIndices :
            /\ Len(SideOf(n, s).clusters) = n
            /\ \A j \in ClusterSlots(n, s) : Len(ClusterOf(n, s, j).stitches) = 3
            /\ Len(SideOf(n, s).anchorsOnThisSide) = (IF n = 0 THEN 1 ELSE n + 1)
            /\ Len(SideOf(n, s).cornerChains) = (IF n = 0 THEN 0 ELSE 2)

C21_Witness ==
  /\ pc = "done"
  /\ Len(rounds) = 4
  /\ radii[1] = MaxRadius /\ radii[2] = 0 /\ radii[3] = -1 /\ radii[4] = -1

\* one quarter turn about c, taking the top-left corner of a square centred
\* at c to its top-right corner; k quarter turns
QuarterTurn(pos, c) ==
  Vec(Sub(c.x, Sub(pos.y, c.y)), Add(c.y, Sub(pos.x, c.x)))

RECURSIVE Turned(_, _, _)
Turned(pos, c, k) == IF k = 0 THEN pos ELSE Turned(QuarterTurn(pos, c), c, k - 1)

\* C22: on every round with id >= 1, the corner chains, cluster centers,
\* stitches and anchors of side k (k = 1, 2, 3) are the top side's elements of
\* the same index turned by k quarter turns about the center.
C22_SidesRotationSymmetric ==
  \A n \in GrownIds : \A k \in 1..3 :
    LET top == SideOf(n, 0)
        side == SideOf(n, k)
    IN  /\ \A c \in 1..2 :
             side.cornerChains[c].pos = Turned(top.cornerChains[c].pos, center, k)
        /\ \A j \in 1..Len(top.clusters) :
             /\ side.clusters[j].centerPos = Turned(top.clusters[j].centerPos, center, k)
             /\ \A d \in 1..3 :
                  side.clusters[j].stitches[d].pos
                    = Turned(top.clusters[j].stitches[d].pos, center, k)
        /\ \A a \in 1..Len(top.anchorsOnThisSide) :
             side.anchorsOnThisSide[a].pos = Turned(top.anchorsOnThisSide[a].pos, center, k)

\* A round with the positions the two policies may place differently blanked
\* out: cluster centers and stitch positions, and with betweenToo also the
\* anchors between two clusters (all anchors but the first and the last).
Blank == Vec(Num(0), Num(0))

BlankedSide(side, betweenToo) ==
  [side EXCEPT
     !.clusters =
       [j \in 1..Len(side.clusters) |->
          [side.clusters[j] EXCEPT
             !.centerPos = Blank,
             !.stitches = [d \in 1..Len(side.clusters[j].stitches) |->
                             [side.clusters[j].stitches[d] EXCEPT !.pos = Blank]]]],
     !.anchorsOnThisSide =
       [a \in 1..Len(side.anchorsOnThisSide) |->
          IF betweenToo /\ a > 1 /\ a < Len(side.anchorsOnThisSide)
            THEN [side.anchorsOnThisSide[a] EXCEPT !.pos = Blank]
            ELSE side.anchorsOnThisSide[a]]]

BlankedRound(round, betweenToo) ==
  [round EXCEPT !.sides = [s \in 0..3 |-> BlankedSide(round.sides[s], betweenToo)]]

BlankedRounds(rs, betweenToo) ==
  [k \in 1..Len(rs) |-> BlankedRound(rs[k], betweenToo)]

\* C23, as stated: the builds of the two policies on the same arguments differ
\* in cluster-center and stitch positions only; every other part of the round
\* lists is the same in both.
C23_PoliciesDifferInCentersOnly ==
  (pc = "done" /\ first # <<>>) =>
    BlankedRounds(rounds, FALSE) = BlankedRounds(first[1], FALSE)

\* C23, amended: the builds of the two policies on the same arguments have the
\* same round ids and geometry, the same numbers of clusters, stitches and
\* anchors, the same ids, anchorRefs and corner chains; they differ only in
\* cluster-center and stitch positions and in the positions of the anchors
\* between two clusters.
C23_PoliciesSameStructure ==
  /\ pc # "error"
  /\ (pc = "done" /\ first # <<>>) =>
       /\ Len(rounds) = Len(first[1])
       /\ BlankedRounds(rounds, TRUE) = BlankedRounds(first[1], TRUE)

C23_Witness ==
  /\ pc = "done"
  /\ first # <<>>
  /\ Len(rounds) >= 4
  /\ rounds[4].sides[0].anchorsOnThisSide[2].pos
       # first[1][4].sides[0].anchorsOnThisSide[2].pos
  /\ rounds[4].sides[0].clusters[1].anchorRef
       = first[1][4].sides[0].clusters[1].anchorRef

\* C24: after every sequence of parameter changes, the radii and the round
\* list of the last render are the radii of the current parameters and the
\* full build on them under the current policy: never a list kept from
\* earlier parameters or built partly from them.
C24_RoundsOfCurrentParameters ==
  app # <<>> =>
    /\ ~app[1].threw
    /\ app[1].radii = radiiOf(app[1].state)
    /\ app[1].rounds = buildOf(app[1].state, radiiOf(app[1].state)).rounds
    /\ Len(app[1].rounds) = Len(app[1].radii)

C24_Witness ==
  /\ app # <<>>
  /\ app[1].state.component = "part_001_App"
  /\ ~app[1].state.isChartView
  /\ app[1].state.nRounds = 3
  /\ app[1].state.stitchWidth = 4
  /\ app[1].radiiRef = 1
  /\ Len(app[1].rounds) = 3

\* C25: every build terminates, after exactly radii.length iterations of the
\* round loop; in round n every side's cluster loop has pushed n clusters and
\* its midpoint loop the n - 1 anchors between the two corner anchors (round 0
\* returns before both loops: no cluster and no midpoint).
C25_BuildTerminates ==
  /\ <>(pc = "done" /\ i = Len(radii) /\ Len(rounds) = Len(radii))
  /\ [](\A n \in RoundIds : \A s \in SideIndices :
          /\ Len(SideOf(n, s).clusters) = n
          /\ Len(SideOf(n, s).anchorsOnThisSide)
               = (IF n = 0 THEN 1 ELSE 2 + (n - 1)))

C25_Witness ==
  /\ pc = "done"
  /\ i = Len(radii)
  /\ Len(radii) >= 4
  /\ Len(SideOf(3, 1).anchorsOnThisSide) = 4

\* C26: under the fixed-pitch compiler, a build with the same radii, center
\* and stitchWidth and another stitchHeight returns the same round list.
C26_HeightDoesNotMatter ==
  /\ pc # "error"
  /\ (isChartView /\ first # <<>>) =>
       /\ Len(rounds) <= Len(first[1])
       /\ \A k \in 1..Len(rounds) : rounds[k] = first[1][k]
       /\ pc = "done" => rounds = first[1]

C26_Witness ==
  /\ pc = "done"
  /\ isChartView
  /\ first # <<>>
  /\ Len(rounds) >= 3
  /\ rounds = first[1]

\* a comes strictly before b when going along side s of round n from its
\* first end corner to its second; x lies strictly between the end corners
Before(a, b, n, s) ==
  Sign(Mul(Sub(Along(b, s), Along(a, s)),
           Sub(Along(P1(n, s), s), Along(P0(n, s), s)))) > 0

Inside(x, n, s) ==
  /\ Before(P0(n, s), x, n, s)
  /\ Before(x, P1(n, s), n, s)
  /\ Across(x, s) = Across(P0(n, s), s)

\* C27: under the proportional pitch, on every side of every round with
\* id >= 1, going from the first end corner to the second: corner-chain-1 is
\* before every stitch of cluster 0, every stitch of a cluster before every
\* stitch of the next cluster, every stitch of the last cluster before
\* corner-chain-2, and all of them are strictly between the end corners.
C27_StitchesInOrderOnSide ==
  ~isChartView =>
    \A n \in GrownIds : \A s \in SideIndices :
      LET side == SideOf(n, s)
          cl == side.clusters
          last == Len(cl)
      IN  /\ \A d \in 1..3 :
               /\ Before(side.cornerChains[1].pos, cl[1].stitches[d].pos, n, s)
               /\ Before(cl[last].stitches[d].pos, side.cornerChains[2].pos, n, s)
          /\ \A j \in 1..(last - 1) : \A d, e \in 1..3 :
               Before(cl[j].stitches[d].pos, cl[j + 1].stitches[e].pos, n, s)
          /\ \A c \in 1..2 : Inside(side.cornerChains[c].pos, n, s)
          /\ \A j \in 1..last : \A d \in 1..3 : Inside(cl[j].stitches[d].pos, n, s)

C27_Witness ==
  /\ pc = "done"
  /\ ~isChartView
  /\ Len(rounds) >= 4
  /\ Before(ClusterOf(3, 2, 0).stitches[1].pos, ClusterOf(3, 2, 1).stitches[3].pos, 3, 2)

\* C28: in a build every cluster of every round with id >= 1 has an
\* anchorRef; every round after the first is compiled from the round before
\* it, whose sides hold every anchor slot the new clusters read, so under the
\* fixed pitch every cluster center comes from its anchor and none from the
\* parametric fallback.
C28_AnchorRefAlwaysPresent ==
  /\ \A n \in GrownIds : \A s \in SideIndices : \A j \in ClusterSlots(n, s) :
       /\ ClusterOf(n, s, j).anchorRef # <<>>
       /\ isChartView =>
            Along(ClusterOf(n, s, j).centerPos, s)
              = Along(ReferencedAnchor(n, s, j).pos, s)
  /\ (pc = "loop" /\ i >= 1 /\ i < Len(radii)) =>
       /\ prevRound # <<>>
       /\ prevRound[1].id = i - 1
       /\ \A s \in SideIndices :
            Len(prevRound[1].sides[s].anchorsOnThisSide) >= i

C28_Witness ==
  /\ pc = "done"
  /\ isChartView
  /\ ~typedAnchors
  /\ Len(rounds) >= 4
  /\ ClusterOf(3, 1, 2).anchorRef # <<>>
  /\ ClusterOf(3, 1, 2).anchorRef[1].slotIndex = 2

\* the places of the round list that carry an id
ClusterPlaces ==
  {<<n, s, j>> \in GrownIds \X SideIndices \X (0..Len(rounds)) : j \in ClusterSlots(n, s)}
DcPlaces == {<<p[1], p[2], p[3], d>> : p \in ClusterPlaces, d \in 0..2}
CornerPlaces == GrownIds \X SideIndices \X (1..2)

ClusterIds == {ClusterOf(p[1], p[2], p[3]).id : p \in ClusterPlaces}
StitchIds ==
  {ClusterOf(p[1], p[2], p[3]).stitches[p[4] + 1].id : p \in DcPlaces}
    \cup {SideOf(p[1], p[2]).cornerChains[p[3]].id : p \in CornerPlaces}

\* C29: over the whole round list, the cluster ids are pairwise distinct and
\* the stitch ids (corner chains and double crochets together) are pairwise
\* distinct, and each id spells the round, side, cluster slot and stitch slot
\* of its element.
C29_IdsDistinct ==
  /\ Cardinality(ClusterIds) = Cardinality(ClusterPlaces)
  /\ Cardinality(StitchIds) = Cardinality(DcPlaces) + Cardinality(CornerPlaces)
  /\ \A p \in ClusterPlaces :
       ClusterOf(p[1], p[2], p[3]).id
         = "r" \o ToString(p[1]) \o "-s" \o ToString(p[2]) \o "-c" \o ToString(p[3])
  /\ \A p \in DcPlaces :
       ClusterOf(p[1], p[2], p[3]).stitches[p[4] + 1].id
         = "r" \o ToString(p[1]) \o "-s" \o ToString(p[2]) \o "-c" \o ToString(p[3])
             \o "-dc" \o ToString(p[4])
  /\ \A p \in CornerPlaces :
       SideOf(p[1], p[2]).cornerChains[p[3]].id
         = "r" \o ToString(p[1]) \o "-s" \o ToString(p[2]) \o "-corner" \o ToString(p[3])

C29_Witness ==
  /\ pc = "done"
  /\ Len(rounds) >= 4
  /\ Cardinality(ClusterIds) = 24
  /\ Cardinality(StitchIds) = 96

\* C30: the controller's round count is always at least 1, so its radius list
\* and its round list (which is built without an error) are never empty and, where it renders a written
\* pattern, the pattern is never the "No pattern to display." placeholder.
C30_AtLeastOneRound ==
  app # <<>> =>
    /\ app[1].state.nRounds >= 1
    /\ app[1].radii # <<>>
    /\ ~app[1].threw
    /\ app[1].rounds # <<>>
    /\ (app[1].writtenPattern # <<>> => ~app[1].writtenPattern[1].empty)

C30_Witness ==
  /\ app # <<>>
  /\ app[1].state.component = "tsx_GrannySquareGenerator"
  /\ app[1].state.nRounds = 1
  /\ Len(app[1].radii) = 1
  /\ Len(app[1].rounds) = 1
  /\ app[1].writtenPattern # <<>>
  /\ ~app[1].writtenPattern[1].empty

====
